---- MODULE Spec2Model ----
(***************************************************************************)
(* Model of rtm/plotting.py: the four rendering functions plot_time_slice, *)
(* plot_record_section, plot_st and plot_stack_peak.                       *)
(*                                                                         *)
(* The state is the caller's objects (the heap: the waveform Stream, the   *)
(* stack function S, the DEM, the celerity list) and the outcome of the    *)
(* last call (its arguments, the figure it drew, the warnings it emitted   *)
(* and the exception it raised).  Objects are reached through references   *)
(* so that a copy and an alias (a view) are different things.              *)
(***************************************************************************)
EXTENDS Integers, Sequences, FiniteSets, TLC

VARIABLES heap, call, fig, warns, raised

vars == <<heap, call, fig, warns, raised>>

\* Python's None where a string is expected (no exception raised)
None == "None"

\* an absent object (a figure never drawn, an argument left at None)
Absent == [kind |-> "None"]

(***************************************************************************)
(* Bounds of the model.                                                    *)
(***************************************************************************)
MaxTraces == 2
NPTS == 2
MaxAmp == 1
NT == 2
NY == 2
NX == 2
MaxTies == 3
MaxCelerities == 2

(***************************************************************************)
(* Small helpers: rationals <<n, d>> with d > 0 (sample values after the   *)
(* division by the sensitivity), sequences.                                *)
(***************************************************************************)
Abs(n) == IF n < 0 THEN -n ELSE n

RatLE(a, b) == a[1] * b[2] <= b[1] * a[2]

RatEq(a, b) == a[1] * b[2] = b[1] * a[2]

RatNeg(a) == <<-a[1], a[2]>>

Range(s) == {s[i] : i \in DOMAIN s}

SeqsUpTo(S, n) == UNION {[1..k -> S] : k \in 0..n}

RECURSIVE SubsetsUpTo(_, _)
SubsetsUpTo(S, k) ==
    IF k = 0 THEN {{}}
    ELSE LET smaller == SubsetsUpTo(S, k - 1)
         IN  smaller \cup {s \cup {e} : s \in smaller, e \in S}

MaxOfSet(S) == CHOOSE m \in S : \A v \in S : v <= m

MinOfSet(S) == CHOOSE m \in S : \A v \in S : m <= v

\* numpy.max of a list of (rational) numbers: the largest, as signed numbers
NpMax(s) == CHOOSE m \in Range(s) : \A v \in Range(s) : RatLE(v, m)

(***************************************************************************)
(* obspy: Trace and Stream.  A trace's sample k has the value              *)
(* data[k] / scale (scale is 1 until the sensitivity is removed).          *)
(***************************************************************************)
Sensitivities == {1, 2}

Coords == {0, 1}

Trace(d, s, lat, lon) ==
    [data |-> d, scale |-> 1, sensitivity |-> s, starttime |-> 0,
     latitude |-> lat, longitude |-> lon, distance |-> <<>>]

\* traces of constant amplitude at the stations of a small network
StationTraces ==
    {Trace([k \in 1..NPTS |-> MaxAmp], 2, lat, lon) : lat \in Coords, lon \in Coords}

WaveformTraces ==
    {Trace(d, s, 0, 0) : d \in [1..NPTS -> -MaxAmp..MaxAmp], s \in Sensitivities}

\* obspy Trace.max(): the sample of largest absolute value, with its sign
TraceMax(tr) ==
    LET value == MaxOfSet(Range(tr.data))
        min == MinOfSet(Range(tr.data))
    IN  <<IF Abs(min) > Abs(value) THEN min ELSE value, tr.scale>>

\* obspy Stream.max(): the list of every trace's Trace.max()
StreamMax(st) == [i \in DOMAIN st |-> TraceMax(st[i])]

\* numpy ndarray.max() of a trace's samples
DataMax(tr) == <<MaxOfSet(Range(tr.data)), tr.scale>>

\* obspy Stream.copy(): a deep copy, held by a new reference
StreamCopyAlias(h, r) == [heap |-> h, ref |-> r]

StreamCopy(h, r) == [heap |-> [h EXCEPT !.tmp = h[r]], ref |-> "tmp"]

\* obspy Stream.remove_sensitivity(): every sample divided by the trace's sensitivity
RemoveSensitivity(h, r) ==
    [h EXCEPT ![r] = [i \in DOMAIN h[r] |->
        [h[r][i] EXCEPT !.scale = h[r][i].scale * h[r][i].sensitivity]]]

\* obspy detrend, taper and zero-phase bandpass, in place: the numerics are
\* obspy's; what the samples become is one of a few sample-wise gains
Gains == {-1, 0, 1}

Filter(h, r, g) ==
    [h EXCEPT ![r] = [i \in DOMAIN h[r] |->
        [h[r][i] EXCEPT !.data = [k \in DOMAIN h[r][i].data |-> g * h[r][i].data[k]]]]]

\* the locals of a call are gone when it returns
Release(h) == [h EXCEPT !.tmp = <<>>]

(***************************************************************************)
(* plot_st(st, filt, equal_scale, remove_response)                         *)
(***************************************************************************)
\* filt: None (written <<>>) or the two corner frequencies
Filts == {<<>>, <<1, 2>>}

\* matplotlib plt.subplots(nrows=n): an array of axes for n > 1, one Axes for n = 1
SubplotsIsArray(n) == n > 1

Panel(tr, equal_scale, ym) ==
    [data |-> tr.data, scale |-> tr.scale,
     ylim |-> IF equal_scale THEN <<RatNeg(ym), ym>>
              ELSE <<RatNeg(DataMax(tr)), DataMax(tr)>>]

PlotSt(filt, gain, equal_scale, remove_response) ==
    LET c == StreamCopy(heap, "st")
        ntra == Len(heap.st)
        h1 == IF remove_response THEN RemoveSensitivity(c.heap, c.ref) ELSE c.heap
        h2 == IF filt # <<>> THEN Filter(h1, c.ref, gain) ELSE h1
        st_plot == h2[c.ref]
    IN  /\ call' = [name |-> "plot_st", filt |-> filt, equal_scale |-> equal_scale,
                    remove_response |-> remove_response]
        /\ warns' = <<>>
        /\ IF Len(c.heap[c.ref]) = 0
           THEN \* st_plot[0] of an empty Stream
                /\ raised' = "IndexError"
                /\ fig' = Absent
                /\ heap' = Release(c.heap)
           ELSE IF ~SubplotsIsArray(ntra)
           THEN \* ax[i] of a single Axes
                /\ raised' = "TypeError: 'Axes' object is not subscriptable"
                /\ fig' = Absent
                /\ heap' = Release(h2)
           ELSE /\ raised' = None
                /\ fig' = [kind |-> "plot_st", panels |-> [i \in DOMAIN st_plot |->
                              Panel(st_plot[i], equal_scale,
                                    IF equal_scale THEN NpMax(StreamMax(st_plot))
                                    ELSE <<0, 1>>)]]
                /\ heap' = Release(h2)

PlotStCall ==
    \E filt \in Filts, gain \in Gains, equal_scale \in BOOLEAN, remove_response \in BOOLEAN :
        /\ (filt = <<>> => gain = 1)
        /\ PlotSt(filt, gain, equal_scale, remove_response)

(***************************************************************************)
(* xarray: the stack function S, a DataArray over (time, y, x).  A cell is *)
(* <<t, y, x>> (indices from 1); data maps every cell to its amplitude, a  *)
(* number >= 0 or NaN.                                                     *)
(***************************************************************************)
NaN == -1

Cells(nt) == (1..nt) \X (1..NY) \X (1..NX)

\* a stack of nt time samples whose cells in hot hold 1 and the others 0
Stack(nt, hot, utm) ==
    [data |-> [c \in Cells(nt) |-> IF c \in hot THEN 1 ELSE 0],
     time |-> [k \in 1..nt |-> 2 * k],
     y |-> [j \in 1..NY |-> 4 * (j - 1)],
     x |-> [i \in 1..NX |-> 4 * (i - 1)],
     UTM |-> utm,
     grid_center |-> <<NX - 1, NY - 1>>,
     x_radius |-> 2 * (NX - 1),
     y_radius |-> 2 * (NY - 1)]

\* the stacks of nt (in nts) time samples with 1..k cells at the maximum
Stacks(nts, k) ==
    UNION {{Stack(nt, hot, utm) : hot \in SubsetsUpTo(Cells(nt), k) \ {{}},
                                  utm \in BOOLEAN} : nt \in nts}

\* xarray S.max(): the largest amplitude, NaN skipped
StackMax(S) == MaxOfSet({S.data[c] : c \in DOMAIN S.data} \ {NaN})

\* the cells where S == S.max()
Tied(S) == LET m == StackMax(S) IN {c \in DOMAIN S.data : S.data[c] = m}

\* row-major (time, y, x) order of cells
CellBefore(a, b) ==
    \/ a[1] < b[1]
    \/ a[1] = b[1] /\ a[2] < b[2]
    \/ a[1] = b[1] /\ a[2] = b[2] /\ a[3] < b[3]

FirstCell(cs) == CHOOSE c \in cs : \A d \in cs \ {c} : CellBefore(c, d)

\* S.max(axis=(1, 2)): the largest amplitude of every time sample, NaN if
\* the whole sample is NaN
SPeak(S) ==
    [k \in DOMAIN S.time |->
        LET vals == {S.data[c] : c \in {d \in DOMAIN S.data : d[1] = k}} \ {NaN}
        IN  IF vals = {} THEN NaN ELSE MaxOfSet(vals)]

\* S.where(S == S.max(), drop=True).squeeze(): the block spanned by the
\* labels of the tied cells, the dimensions of length 1 dropped
StackMaximumShape(S) ==
    LET tied == Tied(S)
        dims == <<Cardinality({c[1] : c \in tied}),
                  Cardinality({c[2] : c \in tied}),
                  Cardinality({c[3] : c \in tied})>>
    IN  SelectSeq(dims, LAMBDA n : n > 1)

RECURSIVE Product(_)
Product(s) == IF s = <<>> THEN 1 ELSE Head(s) * Product(Tail(s))

\* len(stack_maximum.data): the length of the block's first dimension
LenOfData(S) == Head(StackMaximumShape(S))

CountTied(S) == Cardinality(Tied(S))

\* the number the tie warning of plot_stack_peak reports
ReportedTies(S) == LenOfData(S)

RTMWarning(text, n) == [category |-> "RTMWarning", message |-> text, number |-> n]

(***************************************************************************)
(* plot_stack_peak(S, plot_max): the axes it draws and the warnings it     *)
(* emits.                                                                  *)
(***************************************************************************)
StackPeak(S, plot_max) ==
    LET size == Product(StackMaximumShape(S))
        first == FirstCell(Tied(S))
    IN  [line |-> SPeak(S),
         markers |-> IF plot_max
                     THEN <<[time |-> S.time[first[1]], value |-> S.data[first],
                             cell |-> first]>>
                     ELSE <<>>,
         warns |-> IF plot_max /\ size > 1
                   THEN <<RTMWarning("Multiple global maxima present in S!",
                                     ReportedTies(S))>>
                   ELSE <<>>]

PlotStackPeak(plot_max) ==
    LET p == StackPeak(heap.S, plot_max)
    IN  /\ call' = [name |-> "plot_stack_peak", plot_max |-> plot_max]
        /\ fig' = [kind |-> "plot_stack_peak", line |-> p.line, markers |-> p.markers]
        /\ warns' = p.warns
        /\ raised' = None
        /\ UNCHANGED heap

PlotStackPeakCall == \E plot_max \in BOOLEAN : PlotStackPeak(plot_max)

(***************************************************************************)
(* plot_record_section(st, origin_time, source_location, plot_celerity)    *)
(*                                                                         *)
(* Celerities are counted in steps of inc = 0.5 m/s: the number n stands   *)
(* for n / IncPerUnit m/s.                                                 *)
(***************************************************************************)
IncPerUnit == 2
RangeStart == 220
RangeStop == 350

\* numpy.arange(start, stop, step) in units of step: ceil((stop - start) / step)
\* values from start on, stop excluded
Arange(start, stop) == [i \in 1..(stop - start) |-> start + (i - 1)]

\* np.arange(220, 350 + inc, inc)
RangeCelerities == Arange(RangeStart * IncPerUnit, RangeStop * IncPerUnit + 1)

\* list.sort(): ascending, by insertion
RECURSIVE Insert(_, _)
Insert(s, v) ==
    IF s = <<>> THEN <<v>>
    ELSE IF v < Head(s) THEN <<v>> \o s
    ELSE <<Head(s)>> \o Insert(Tail(s), v)

RECURSIVE Sort(_)
NoSort(s) == s

Sort(s) == IF s = <<>> THEN <<>> ELSE Insert(Sort(Tail(s)), Head(s))

\* f'{celerity:g}': the decimal text of the celerity, whole m/s and tenths
FormatG(n) == [whole |-> n \div IncPerUnit, tenths |-> (10 \div IncPerUnit) * (n % IncPerUnit)]

\* the number a label reads as, in steps of inc
ParseG(l) == l.whole * IncPerUnit + (l.tenths * IncPerUnit) \div 10

\* obspy gps2dist_azimuth: the distance between source and station (here on
\* a square lattice of stations)
Gps2Dist(src, lat, lon) == Abs(src[1] - lat) + Abs(src[2] - lon)

\* Trace.trim(starttime): the samples before starttime are dropped
TrimTrace(tr, t) ==
    LET drop == IF t > tr.starttime THEN t - tr.starttime ELSE 0
        n == Len(tr.data)
    IN  IF drop >= n THEN [tr EXCEPT !.data = <<>>]
        ELSE [tr EXCEPT !.data = SubSeq(tr.data, drop + 1, n),
                        !.starttime = tr.starttime + drop]

\* Stream.trim(starttime), in place: every trace trimmed, the empty ones removed
Trim(h, r, t) ==
    [h EXCEPT ![r] = SelectSeq([i \in DOMAIN h[r] |-> TrimTrace(h[r][i], t)],
                               LAMBDA tr : Len(tr.data) > 0)]

SetDistances(h, r, src) ==
    [h EXCEPT ![r] = [i \in DOMAIN h[r] |->
        [h[r][i] EXCEPT !.distance = <<Gps2Dist(src, h[r][i].latitude,
                                                h[r][i].longitude)>>]]]

\* plot_celerity: None, 'range', a number, or the caller's list (by reference)
CelNone == [kind |-> "None"]
CelRange == [kind |-> "range"]
CelScalar(c) == [kind |-> "scalar", value |-> c]
CelList(r) == [kind |-> "list", ref |-> r]

\* bool(plot_celerity)
CelTruthy(h, pc) ==
    CASE pc.kind = "None" -> FALSE
      [] pc.kind = "range" -> TRUE
      [] pc.kind = "scalar" -> pc.value # 0
      [] pc.kind = "list" -> h[pc.ref] # <<>>

CelerityLine(c, i) == [slope |-> c, label |-> FormatG(c), color |-> i]

PlotRecordSection(origin_time, source_location, plot_celerity, label_waveforms) ==
    LET c == StreamCopy(heap, "st")
        h1 == SetDistances(c.heap, c.ref, source_location)
        h2 == Trim(h1, c.ref, origin_time)
        st_edit == h2[c.ref]
        \* a number is wrapped in a new list; a list is used as it is
        h3 == IF plot_celerity.kind = "scalar"
              THEN [h2 EXCEPT !.tmpcel = <<plot_celerity.value>>] ELSE h2
        celref == IF plot_celerity.kind = "scalar" THEN "tmpcel" ELSE "cel"
        isList == plot_celerity.kind \in {"scalar", "list"}
        overlay == CelTruthy(heap, plot_celerity)
        h4 == IF overlay /\ isList THEN [h3 EXCEPT ![celref] = Sort(h3[celref])] ELSE h3
        celerity_list == IF plot_celerity.kind = "range" THEN RangeCelerities
                         ELSE h4[celref]
        lines == [i \in DOMAIN celerity_list |-> CelerityLine(celerity_list[i], i)]
    IN  /\ call' = [name |-> "plot_record_section", origin_time |-> origin_time,
                    source_location |-> source_location,
                    plot_celerity |-> plot_celerity,
                    celerities |-> IF plot_celerity.kind = "list" THEN heap.cel
                                   ELSE IF plot_celerity.kind = "scalar"
                                   THEN <<plot_celerity.value>> ELSE <<>>]
        /\ warns' = <<>>
        /\ IF Len(st_edit) = 0
           THEN \* Stream.plot() of an empty Stream
                /\ raised' = "IndexError: Empty stream object"
                /\ fig' = Absent
                /\ heap' = [Release(h2) EXCEPT !.tmpcel = <<>>]
           ELSE /\ raised' = None
                /\ fig' = [kind |-> "plot_record_section",
                           traces |-> [i \in DOMAIN st_edit |->
                                          [distance |-> st_edit[i].distance[1],
                                           data |-> st_edit[i].data,
                                           labelled |-> label_waveforms]],
                           lines |-> IF overlay THEN lines ELSE <<>>,
                           colorbar |-> overlay /\ plot_celerity.kind = "range",
                           legend |-> IF overlay /\ isList
                                      THEN [i \in DOMAIN lines |-> lines[i].label]
                                      ELSE <<>>]
                /\ heap' = [Release(h4) EXCEPT !.tmpcel = <<>>]

\* celerities a caller asks for: 250, 300.5 and 350 m/s
CelerityValues == {250 * IncPerUnit, 300 * IncPerUnit + 1, 350 * IncPerUnit}

PlotRecordSectionCall ==
    \E origin_time \in 0..NPTS, source_location \in {<<0, 0>>},
       plot_celerity \in {CelNone, CelRange, CelList("cel")}
                            \cup {CelScalar(v) : v \in CelerityValues},
       label_waveforms \in BOOLEAN :
        PlotRecordSection(origin_time, source_location, plot_celerity, label_waveforms)

(***************************************************************************)
(* plot_time_slice(S, processed_st, time_slice, dem, plot_peak, xy_grid)   *)
(***************************************************************************)
\* a DEM on a grid of the stack's shape, moved east by shift, with the
\* cells in holes missing (NaN)
Dem(holes, shift) ==
    [kind |-> "dem",
     data |-> [c \in (1..NY) \X (1..NX) |-> IF c \in holes THEN NaN ELSE 1],
     y |-> [j \in 1..NY |-> 4 * (j - 1)],
     x |-> [i \in 1..NX |-> 4 * (i - 1) + shift],
     x_radius |-> 2 * (NX - 1),
     y_radius |-> 2 * (NY - 1)]

\* with a corner missing; on the stack's grid or one cell east of it
Dems == {Dem({<<1, 1>>}, shift) : shift \in {0, 4}}

\* the forward transform of _proj_from_grid(S): (lat, lon) to planar (x, y)
Project(lat, lon) == <<2 * lon, 2 * lat>>

\* its inverse: planar (x, y) to (lat, lon)
Unproject(x, y) == <<y \div 2, x \div 2>>

\* get_peak_coordinates(S, unproject): time, y and x of the global maximum
\* (of several, the first in array order), as latitude and longitude if
\* unproject; it emits no warning
GetPeakCoordinates(S, unproject) ==
    LET peak == FirstCell(Tied(S))
    IN  [peak |-> peak,
         time_max |-> S.time[peak[1]],
         y_max |-> IF unproject THEN Unproject(S.x[peak[3]], S.y[peak[2]])[1]
                   ELSE S.y[peak[2]],
         x_max |-> IF unproject THEN Unproject(S.x[peak[3]], S.y[peak[2]])[2]
                   ELSE S.x[peak[3]],
         warns |-> <<>>]

\* a selection that ignores the label asked for
FirstIndex(coords, v) == 1

\* index.get_indexer(method='nearest'): the nearest label's position, the
\* larger one of two equally near
NearestIndex(coords, v) ==
    LET best == MinOfSet({Abs(coords[i] - v) : i \in DOMAIN coords})
    IN  MaxOfSet({i \in DOMAIN coords : Abs(coords[i] - v) = best})

\* the stations' coordinates projected, in place
ProjectStations(h, r) ==
    [h EXCEPT ![r] = [i \in DOMAIN h[r] |->
        [h[r][i] EXCEPT !.longitude = Project(h[r][i].latitude, h[r][i].longitude)[1],
                        !.latitude = Project(h[r][i].latitude, h[r][i].longitude)[2]]]]

ShiftStations(h, r, x0, y0) ==
    [h EXCEPT ![r] = [i \in DOMAIN h[r] |->
        [h[r][i] EXCEPT !.longitude = h[r][i].longitude - x0,
                        !.latitude = h[r][i].latitude - y0]]]

ShiftCoords(coords, c0) == [i \in DOMAIN coords |-> coords[i] - c0]

\* xy_grid: None, an int or a float
XyNone == [kind |-> "None"]
XyInt(w) == [kind |-> "int", value |-> w]
XyFloat(w) == [kind |-> "float", value |-> w]

ConfigurationError == "ValueError: xy_grid can only be used with projected grids!"

FormatError == "ValueError: Unknown format code 'd' for object of type 'float'"

\* bool(xy_grid)
XyTruthy(xy) == xy.kind # "None" /\ xy.value # 0

\* f'{xy_grid:d}' formats an int only
FormatD(xy) == xy.kind = "int"

\* plot_peak and len(S.time) == 1: the peak subplot is given up
PeakGivenUpNever(plot_peak, S) == FALSE

PeakGivenUp(plot_peak, S) == plot_peak /\ Len(S.time) = 1

\* dem.sel(x=slice.x, y=slice.y, method='nearest'): the slice's cells whose
\* nearest DEM cell is missing
NaNCells(dem_data, dem_x, dem_y, slice_x, slice_y) ==
    {c \in (DOMAIN slice_y) \X (DOMAIN slice_x) :
        dem_data[<<NearestIndex(dem_y, slice_y[c[1]]),
                   NearestIndex(dem_x, slice_x[c[2]])>>] = NaN}

\* S.sel(time=...) is a view of S's data: slice.data[mask] = nan writes the
\* cells of time sample k of the array r refers to
SliceSetNaN(h, r, k, cells) ==
    [h EXCEPT ![r].data = [c \in DOMAIN h[r].data |->
        IF c[1] = k /\ <<c[2], c[3]>> \in cells THEN NaN ELSE h[r].data[c]]]

SliceData(S, k) == [c \in (1..NY) \X (1..NX) |-> S.data[<<k, c[1], c[2]>>]]

PlotTimeSlice(time_slice, plot_peak_arg, xy_grid) ==
    LET S == heap.S
        dem == heap.dem
        given_up == PeakGivenUp(plot_peak_arg, S)
        plot_peak == plot_peak_arg /\ ~given_up
        c == StreamCopy(heap, "st")
        pk == GetPeakCoordinates(S, S.UTM)
        w1 == (IF given_up
               THEN <<RTMWarning("Stack time length = 1, not plotting peak", 1)>>
               ELSE <<>>) \o pk.warns
        center == IF S.UTM THEN Project(S.grid_center[2], S.grid_center[1])
                  ELSE S.grid_center
        max == IF S.UTM THEN Project(pk.y_max, pk.x_max) ELSE <<pk.x_max, pk.y_max>>
        h1 == IF S.UTM THEN ProjectStations(c.heap, c.ref) ELSE c.heap
        time_to_plot == IF time_slice # <<>> THEN time_slice[1] ELSE pk.time_max
        k == NearestIndex(S.time, time_to_plot)
        recentre == XyTruthy(xy_grid)
        x0 == MinOfSet(Range(S.x)) + S.x_radius
        y0 == MinOfSet(Range(S.y)) + S.y_radius
        slice_x == IF recentre THEN ShiftCoords(S.x, x0) ELSE S.x
        slice_y == IF recentre THEN ShiftCoords(S.y, y0) ELSE S.y
        has_dem == dem.kind # "None"
        x0_dem == MinOfSet(Range(dem.x)) + dem.x_radius
        y0_dem == MinOfSet(Range(dem.y)) + dem.y_radius
        dem_x == IF recentre THEN ShiftCoords(dem.x, x0_dem) ELSE dem.x
        dem_y == IF recentre THEN ShiftCoords(dem.y, y0_dem) ELSE dem.y
        h2 == IF recentre THEN ShiftStations(h1, c.ref, x0, y0) ELSE h1
        masked == IF has_dem THEN NaNCells(dem.data, dem_x, dem_y, slice_x, slice_y)
                  ELSE {}
        h3 == IF has_dem THEN SliceSetNaN(h2, "S", k, masked) ELSE h2
        st == h3[c.ref]
        peak_axes == StackPeak(h3.S, TRUE)
    IN  /\ call' = [name |-> "plot_time_slice", time_slice |-> time_slice,
                    plot_peak |-> plot_peak_arg, xy_grid |-> xy_grid,
                    peak |-> pk.peak]
        /\ IF recentre /\ ~S.UTM
           THEN /\ raised' = ConfigurationError
                /\ fig' = Absent
                /\ warns' = w1
                /\ heap' = Release(h1)
           ELSE IF recentre /\ ~FormatD(xy_grid)
           THEN /\ raised' = FormatError
                /\ fig' = Absent
                /\ warns' = w1
                /\ heap' = Release(h1)
           ELSE /\ raised' = None
                /\ fig' = [kind |-> "plot_time_slice",
                           slice_time |-> S.time[k],
                           slice_x |-> slice_x,
                           slice_y |-> slice_y,
                           slice_data |-> SliceData(h3.S, k),
                           dem_x |-> IF has_dem THEN dem_x ELSE <<>>,
                           dem_y |-> IF has_dem THEN dem_y ELSE <<>>,
                           masked |-> masked,
                           center |-> IF recentre THEN <<center[1] - x0, center[2] - y0>>
                                      ELSE center,
                           max |-> IF recentre THEN <<max[1] - x0, max[2] - y0>> ELSE max,
                           stations |-> [i \in DOMAIN st |->
                                            <<st[i].longitude, st[i].latitude>>],
                           banner |-> S.time[k] = pk.time_max,
                           xlim |-> IF recentre THEN <<-xy_grid.value, xy_grid.value>>
                                    ELSE <<>>,
                           ylim |-> IF recentre THEN <<-xy_grid.value, xy_grid.value>>
                                    ELSE <<>>,
                           peak |-> IF plot_peak
                                    THEN [kind |-> "plot_stack_peak",
                                          line |-> peak_axes.line,
                                          markers |-> peak_axes.markers]
                                    ELSE Absent]
                /\ warns' = IF plot_peak THEN w1 \o peak_axes.warns ELSE w1
                /\ heap' = Release(h3)

XyGrids == {XyNone, XyInt(0), XyInt(6), XyFloat(6)}

\* time_slice: None (written <<>>), the first sample's time, a time half
\* way between two samples, or a time after the last sample
TimeSlices == {<<>>} \cup {<<t>> : t \in 2..(NT + 1) \cup {2 * NT + 1}}

PlotTimeSliceCall ==
    \E time_slice \in TimeSlices,
       plot_peak \in BOOLEAN, xy_grid \in XyGrids :
        PlotTimeSlice(time_slice, plot_peak, xy_grid)

(***************************************************************************)
(* Specifications.                                                         *)
(***************************************************************************)
NoCall ==
    /\ call = [name |-> "none"]
    /\ fig = Absent
    /\ warns = <<>>
    /\ raised = None

InitSt ==
    /\ heap \in [st : SeqsUpTo(WaveformTraces, MaxTraces), S : {Absent}, dem : {Absent},
                 cel : {<<>>}, tmp : {<<>>}, tmpcel : {<<>>}]
    /\ NoCall

SpecSt == InitSt /\ [][PlotStCall]_vars

InitPeak ==
    /\ heap \in [st : {<<>>}, S : Stacks({NT}, MaxTies), dem : {Absent},
                 cel : {<<>>}, tmp : {<<>>}, tmpcel : {<<>>}]
    /\ NoCall

InitSection ==
    /\ heap \in [st : SeqsUpTo(StationTraces, 1), S : {Absent}, dem : {Absent},
                 cel : SeqsUpTo(CelerityValues, MaxCelerities), tmp : {<<>>},
                 tmpcel : {<<>>}]
    /\ NoCall

SpecSection == InitSection /\ [][PlotRecordSectionCall]_vars

\* a station north of the origin
SliceStreams == {<<Trace([k \in 1..NPTS |-> MaxAmp], 2, 1, 0)>>}

InitSliceOf(stacks) ==
    /\ heap \in [st : SliceStreams, S : stacks, dem : {Absent} \cup Dems,
                 cel : {<<>>}, tmp : {<<>>}, tmpcel : {<<>>}]
    /\ NoCall

InitSlice == InitSliceOf(Stacks(1..NT, 1))

SpecSlice == InitSlice /\ [][PlotTimeSliceCall]_vars

\* stacks of a single time sample
InitSliceSingle == InitSliceOf(Stacks({1}, 1))

SpecSliceSingle == InitSliceSingle /\ [][PlotTimeSliceCall]_vars

\* the three functions that take a waveform collection, on networks of up
\* to MaxTraces stations
InitStream ==
    /\ heap \in [st : SeqsUpTo(StationTraces, MaxTraces),
                 S : {Stack(NT, {<<1, 1, 1>>}, utm) : utm \in BOOLEAN},
                 dem : {Absent}, cel : {<<>>}, tmp : {<<>>}, tmpcel : {<<>>}]
    /\ NoCall

NextStream ==
    \/ PlotStCall
    \/ \E origin_time \in 0..NPTS :
          PlotRecordSection(origin_time, <<0, 0>>, CelNone, TRUE)
    \/ \E xy_grid \in {XyNone, XyInt(6)} :
          PlotTimeSlice(<<>>, FALSE, xy_grid)

SpecStream == InitStream /\ [][NextStream]_vars

SpecPeak == InitPeak /\ [][PlotStackPeakCall]_vars

(***************************************************************************)
(* The claims.                                                             *)
(***************************************************************************)
\* the largest absolute sample value of a panel's (processed) trace
PanelMaxAbs(p) == <<MaxOfSet({Abs(p.data[k]) : k \in DOMAIN p.data}), p.scale>>

\* C1: plot_st's y-limits: with equal_scale every panel's limits are
\* [-M, +M], M the largest absolute sample value of all processed traces;
\* without it panel i's limits are [-m_i, +m_i], m_i the largest absolute
\* sample value of trace i.
C1_YLimitsAreMaxAbs ==
    (call.name = "plot_st" /\ raised = None) =>
        \A i \in DOMAIN fig.panels :
            LET m == IF call.equal_scale
                     THEN NpMax([j \in DOMAIN fig.panels |-> PanelMaxAbs(fig.panels[j])])
                     ELSE PanelMaxAbs(fig.panels[i])
            IN  /\ RatEq(fig.panels[i].ylim[1], RatNeg(m))
                /\ RatEq(fig.panels[i].ylim[2], m)

\* C2: when several cells attain the global maximum, plot_stack_peak with
\* plot_max draws exactly one marker, at the first tied cell in (time, y, x)
\* order, and emits exactly one RTMWarning whose number is the number of
\* tied cells.
C2_OneMarkerAndTieCount ==
    (call.name = "plot_stack_peak" /\ call.plot_max /\ CountTied(heap.S) > 1) =>
        /\ Len(fig.markers) = 1
        /\ fig.markers[1].cell = FirstCell(Tied(heap.S))
        /\ Len(warns) = 1
        /\ warns[1].category = "RTMWarning"
        /\ warns[1].number = CountTied(heap.S)

Count(s, v) == Cardinality({i \in DOMAIN s : s[i] = v})

IsAscending(s) == \A i \in 1..(Len(s) - 1) : s[i] <= s[i + 1]

C9_OnePanelPerTrace ==
    (call.name = "plot_st" /\ Len(heap.st) >= 1) =>
        /\ raised = None
        /\ fig.kind = "plot_st"
        /\ Len(fig.panels) = Len(heap.st)
        /\ (call.filt = <<>> =>
              \A i \in DOMAIN fig.panels : fig.panels[i].data = heap.st[i].data)

\* C3: plot_time_slice never mutates the stack S it is given: after the call
\* every value and coordinate of the caller's S is what it was before, and
\* the peak subplot of the same call is computed from the unmodified S.
C3_StackNeverMutated ==
    [][call'.name = "plot_time_slice" =>
        /\ heap'.S = heap.S
        /\ (raised' = None /\ fig'.peak.kind # "None" =>
               fig'.peak.line = SPeak(heap.S))]_vars

\* C4: for a geographic stack (S.UTM false), plot_time_slice with any xy_grid
\* other than None raises the configuration error ValueError.
C4_GeographicRecentringRaises ==
    (call.name = "plot_time_slice" /\ ~heap.S.UTM /\ call.xy_grid.kind # "None") =>
        raised = ConfigurationError

\* C5: for a planar stack (S.UTM true), plot_time_slice with a display window
\* xy_grid = w > 0, an int or a float, completes and sets both axes' limits to
\* [-w, +w], and the grid center,
\* the stack maximum and every station are shifted by the one offset
\* (x0, y0) = (min slice x + x_radius, min slice y + y_radius).
C5_WindowAndCommonOffset ==
    (/\ call.name = "plot_time_slice"
     /\ heap.S.UTM
     /\ call.xy_grid.kind \in {"int", "float"}
     /\ call.xy_grid.value > 0) =>
        LET S == heap.S
            w == call.xy_grid.value
            x0 == MinOfSet(Range(S.x)) + S.x_radius
            y0 == MinOfSet(Range(S.y)) + S.y_radius
            center == Project(S.grid_center[2], S.grid_center[1])
        IN  /\ raised = None
            /\ fig.xlim = <<-w, w>>
            /\ fig.ylim = <<-w, w>>
            /\ fig.center = <<center[1] - x0, center[2] - y0>>
            /\ fig.max = <<S.x[call.peak[3]] - x0, S.y[call.peak[2]] - y0>>
            /\ \A i \in DOMAIN fig.stations :
                  LET p == Project(heap.st[i].latitude, heap.st[i].longitude)
                  IN  fig.stations[i] = <<p[1] - x0, p[2] - y0>>

\* C6: for a stack of exactly one time sample, plot_time_slice with
\* plot_peak=True never draws the peak subplot and emits exactly one
\* RTMWarning; with plot_peak=False it emits no such warning.
C6_SingleSampleNoPeak ==
    (call.name = "plot_time_slice" /\ Len(heap.S.time) = 1) =>
        /\ fig.kind = "plot_time_slice" => fig.peak.kind = "None"
        /\ call.plot_peak =>
              Cardinality({i \in DOMAIN warns : warns[i].category = "RTMWarning"}) = 1
        /\ ~call.plot_peak => warns = <<>>

\* a single-sample stack drawn with plot_peak=True
C6_Witness ==
    /\ call.name = "plot_time_slice"
    /\ Len(heap.S.time) = 1
    /\ call.plot_peak
    /\ raised = None
    /\ fig.kind = "plot_time_slice"
    /\ Len(warns) = 1

\* C8: the caller's waveform collection is untouched by plot_time_slice,
\* plot_record_section and plot_st: after every call each trace's samples
\* and metadata are what they were before it.
C8_CallerStreamUntouched == [][heap'.st = heap.st]_vars

\* plot_time_slice has projected and shifted the stations of its copy
C8_Witness ==
    /\ call.name = "plot_time_slice"
    /\ raised = None
    /\ call.xy_grid.kind = "int"
    /\ Len(heap.st) >= 1
    /\ fig.stations[1] # <<heap.st[1].longitude, heap.st[1].latitude>>

\* C10: under recentring with a DEM, the DEM's coordinates are shifted by
\* the same offset as the slice's, also when the DEM's extent differs from
\* the slice's, so the DEM masks the same slice cells with and without
\* recentring.
C10_DemShiftedWithSlice ==
    (/\ call.name = "plot_time_slice"
     /\ raised = None
     /\ XyTruthy(call.xy_grid)
     /\ heap.dem.kind # "None") =>
        /\ \A i \in DOMAIN fig.dem_x :
              heap.dem.x[i] - fig.dem_x[i] = heap.S.x[1] - fig.slice_x[1]
        /\ \A j \in DOMAIN fig.dem_y :
              heap.dem.y[j] - fig.dem_y[j] = heap.S.y[1] - fig.slice_y[1]
        /\ fig.masked = NaNCells(heap.dem.data, heap.dem.x, heap.dem.y,
                                 heap.S.x, heap.S.y)

\* C11: the displayed slice is a stack time sample nearest to the requested
\* time, or the sample at the global maximum's time when none is requested;
\* the title has the GLOBAL MAXIMUM banner exactly when the displayed
\* slice's time is the global maximum's time, so always when none is
\* requested.
C11_NearestSliceAndBanner ==
    (call.name = "plot_time_slice" /\ raised = None) =>
        LET time_max == heap.S.time[call.peak[1]]
        IN  /\ fig.slice_time \in Range(heap.S.time)
            /\ call.time_slice # <<>> =>
                  \A i \in DOMAIN heap.S.time :
                     Abs(fig.slice_time - call.time_slice[1])
                        <= Abs(heap.S.time[i] - call.time_slice[1])
            /\ call.time_slice = <<>> => fig.slice_time = time_max
            /\ fig.banner <=> fig.slice_time = time_max
            /\ call.time_slice = <<>> => fig.banner

\* a time after the last sample was requested, the last sample is shown, and
\* it is not the global maximum's
C11_Witness ==
    /\ call.name = "plot_time_slice"
    /\ raised = None
    /\ call.time_slice # <<>>
    /\ call.time_slice[1] > heap.S.time[Len(heap.S.time)]
    /\ fig.slice_time = heap.S.time[Len(heap.S.time)]
    /\ fig.slice_time # heap.S.time[call.peak[1]]
    /\ ~fig.banner

\* C12: after plot_record_section is called with a list of celerities in any
\* order, the caller's list has the same elements in the same order as
\* before the call.
C12_CelerityListUntouched ==
    (call.name = "plot_record_section" /\ call.plot_celerity.kind = "list") =>
        heap.cel = call.celerities

====
